---- MODULE Spec2Model ----
(***************************************************************************)
(* ChromeService (src/src/chrome-service.ts): the bounded job queue, the   *)
(* idle pool of browsers (chromeSwarm), the pressure-driven concurrency    *)
(* ceiling and the per-job lifecycle (start, settle, timeout, disconnect). *)
(*                                                                         *)
(* One action is one callback of the single-threaded event loop: a whole   *)
(* synchronous run of code between two awaits, with every call it makes    *)
(* and the promise continuations that run before the next callback.        *)
(* The job queue is the npm package `queue` (required at line 9, set up at *)
(* lines 32-40 with autostart, a concurrency and a timeout); QueueStart    *)
(* and QueueNext follow its start() and next(), and QueueLength its length *)
(* getter (pending + jobs.length).                                         *)
(* A launch is observed only by the job awaiting it, so a launch settles   *)
(* in the model once a job awaits it.                                      *)
(***************************************************************************)
EXTENDS Integers, Sequences, FiniteSets, TLC

\* ------------------------------------------------------------------ bounds
MaxReq == 5              \* requests of a burst (no job of it completes)
QueueReqs == 3           \* requests of a run whose clients stay connected
LifeReqs == 2            \* requests of a run with every trigger interleaved
MaxHandles == 4          \* browsers ever launched in a run
MaxSessions == 2         \* largest configured maxConcurrentSessions
MaxQueueLen == 3         \* largest configured maxQueueLength
DefaultRetries == 1      \* launchChrome(flags = [], retries = 1)

Reqs == 1..MaxReq
Handles == 1..MaxHandles
ResultKinds == {"buffer", "json", "text", "untyped"}

VARIABLES
  config,        \* IChromeServiceConfiguration, fixed at construction
  isMachinedConstrained,  \* the resource monitor's current signal
  concurrency,   \* queue.concurrency, the ceiling
  jobs,          \* queue.jobs: admitted jobs not yet started, in push order
  pending,       \* queue.pending: jobs started whose next() has not run
  chromeSwarm,   \* the idle pool, a sequence of launch promises
  chrome,        \* per browser: "none", "launching", "ready", "failed", "closed"
  retries,       \* per browser still launching: retries left
  reusing,       \* per browser: reuseChromeInstance calls awaiting pages()
  job,           \* per request: the job, its request and its response
  stat,          \* server.currentStat
  refresh        \* the refresh timer: "armed", or "threw"

vars == <<config, isMachinedConstrained, concurrency, jobs, pending,
          chromeSwarm, chrome, retries, reusing, job, stat, refresh>>

\* pc: "none" (not yet received), "rejected" (429), "bindfail" (vm.run threw),
\* "queued", "launching" (await launchPromise), "newpage" (await newPage),
\* "handler" (await handler), then how the job function ended: "resolved",
\* "failed" (handler rejected), "launchfail", "pagefail".
\* once: the queue's once flag of the started job (its slot is held and its
\* timer armed). status: the response status written, 0 while none is
\* (res.headersSent). releases: how many times the job's paths closed or
\* recycled its browser.
NoJob ==
  [pc |-> "none", launchPromise |-> 0, browser |-> 0, page |-> "none",
   once |-> FALSE, didTimeout |-> FALSE, status |-> 0, reqClosed |-> FALSE,
   releases |-> 0]

\* The mutable state as one record, so that a callback's nested calls compose.
\* fits turns FALSE when a launch would exceed MaxHandles.
State ==
  [concurrency |-> concurrency, jobs |-> jobs, pending |-> pending,
   chromeSwarm |-> chromeSwarm, chrome |-> chrome, retries |-> retries,
   reusing |-> reusing, job |-> job, stat |-> stat, fits |-> TRUE]

Commit(s0) == \E s \in {s0} :
  /\ s.fits
  /\ concurrency' = s.concurrency
  /\ jobs' = s.jobs
  /\ pending' = s.pending
  /\ chromeSwarm' = s.chromeSwarm
  /\ chrome' = s.chrome
  /\ retries' = s.retries
  /\ reusing' = s.reusing
  /\ job' = s.job
  /\ stat' = s.stat
  /\ UNCHANGED <<config, isMachinedConstrained, refresh>>

\* ------------------------------------------------------------------ browsers
Min(S) == CHOOSE x \in S : \A y \in S : x <= y

NewHandle(s) ==
  LET free == {h \in Handles : s.chrome[h] = "none"}
  IN IF free = {} THEN 0 ELSE Min(free)

\* launchChrome: the browser NewHandle(s) starts launching
LaunchChrome(s) ==
  LET h == NewHandle(s)
  IN IF h = 0 THEN [s EXCEPT !.fits = FALSE]
     ELSE [s EXCEPT !.chrome[h] = "launching", !.retries[h] = DefaultRetries]

\* this.chromeSwarm.push(this.launchChrome())
PushLaunch(s) ==
  LET h == NewHandle(s)
      s1 == LaunchChrome(s)
  IN IF h = 0 THEN s1 ELSE [s1 EXCEPT !.chromeSwarm = Append(@, h)]

\* every open page of browser h is closed
ClosePages(s, h) ==
  [s EXCEPT !.job = [j \in Reqs |->
      IF s.job[j].browser = h /\ s.job[j].page = "open"
      THEN [s.job[j] EXCEPT !.page = "closed"] ELSE s.job[j]]]

\* browser.close()
BrowserClose(s, h) ==
  LET s1 == ClosePages(s, h)
  IN [s1 EXCEPT !.chrome[h] = IF @ = "ready" THEN "closed" ELSE @]

\* reuseChromeInstance up to its await of instance.pages()
ReuseChromeInstance(s, h) == [s EXCEPT !.reusing[h] = @ + 1]

\* addToChromeSwarm
AddToChromeSwarm(s) ==
  IF config.prebootChrome /\ Len(s.chromeSwarm) < s.concurrency
  THEN PushLaunch(s) ELSE s

\* ------------------------------------------------------------------ stats
OnSessionComplete(s) ==
  AddToChromeSwarm([s EXCEPT !.stat.successful = @ + 1])

OnSessionFail(s) ==
  AddToChromeSwarm([s EXCEPT !.stat.error = @ + 1])

OnQueued(s) == [s EXCEPT !.stat.queued = @ + 1]

\* ------------------------------------------------------------------ queue
QueueLength(s) == s.pending + Len(s.jobs)

\* the job function up to its first await: take a pooled browser or launch
\* one. A pooled browser already launched resumes the await at once, and the
\* job goes on to newPage.
JobStart(s, j) ==
  IF Len(s.chromeSwarm) > 0
  THEN LET h == Head(s.chromeSwarm)
       IN [s EXCEPT !.chromeSwarm = Tail(@),
                    !.job[j].launchPromise = h,
                    !.job[j].pc = IF s.chrome[h] = "launching"
                                  THEN "launching" ELSE "newpage"]
  ELSE LET h == NewHandle(s)
           s1 == LaunchChrome(s)
       IN [s1 EXCEPT !.job[j].launchPromise = h, !.job[j].pc = "launching"]

\* queue.start(): while a slot is free, shift the head job, arm its timer and
\* call it
RECURSIVE QueueStart(_)
QueueStart(s) ==
  IF s.pending >= s.concurrency \/ s.jobs = <<>> THEN s
  ELSE LET j == Head(s.jobs)
           s1 == [s EXCEPT !.jobs = Tail(@), !.pending = @ + 1,
                           !.job[j].once = TRUE]
       IN QueueStart(JobStart(s1, j))

\* the job's next(err): frees the slot once, raises error or success, restarts
QueueNext(s, j, err) ==
  IF ~s.job[j].once THEN s
  ELSE LET s1 == [s EXCEPT !.job[j].once = FALSE, !.pending = @ - 1]
           s2 == IF err THEN OnSessionFail(s1)
                 ELSE IF ~s1.job[j].didTimeout THEN OnSessionComplete(s1)
                 ELSE s1
       IN QueueStart(s2)

\* mutant: the job is put at the front of the queue (unshift)
QueuePush_Front(s, j) ==
  QueueStart([s EXCEPT !.jobs = <<j>> \o @, !.job[j].pc = "queued"])

\* this.queue.push(job), autostart
QueuePush(s, j) ==
  QueueStart([s EXCEPT !.jobs = Append(@, j), !.job[j].pc = "queued"])

\* mutant: the ceiling is lowered to the number of waiting jobs
UpdateConcurrency_Waiting(s, isMachineStrained) ==
  IF config.autoQueue /\ QueueLength(s) < s.concurrency
  THEN [s EXCEPT !.concurrency =
          IF isMachineStrained THEN Len(s.jobs)
          ELSE config.maxConcurrentSessions]
  ELSE s

\* mutant: the ceiling is recomputed whether or not the length is below it
UpdateConcurrency_Unguarded(s, isMachineStrained) ==
  IF config.autoQueue
  THEN [s EXCEPT !.concurrency =
          IF isMachineStrained THEN QueueLength(s)
          ELSE config.maxConcurrentSessions]
  ELSE s

\* mutant: without pressure the ceiling is reset whatever the length
UpdateConcurrency_Reset(s, isMachineStrained) ==
  IF config.autoQueue /\ (QueueLength(s) < s.concurrency \/ ~isMachineStrained)
  THEN [s EXCEPT !.concurrency =
          IF isMachineStrained THEN QueueLength(s)
          ELSE config.maxConcurrentSessions]
  ELSE s

\* the ceiling update of runFunction and autoUpdateQueue
UpdateConcurrency(s, isMachineStrained) ==
  IF config.autoQueue /\ QueueLength(s) < s.concurrency
  THEN [s EXCEPT !.concurrency =
          IF isMachineStrained THEN QueueLength(s)
          ELSE config.maxConcurrentSessions]
  ELSE s

\* mutant: the capacity check is off by one
QueueFull_Strict(s) == QueueLength(s) > config.maxQueueLength

\* the capacity check of runFunction
QueueFull(s) == QueueLength(s) >= config.maxQueueLength

\* ------------------------------------------------------------------ Init
Configs ==
  [maxConcurrentSessions : 1..MaxSessions, maxQueueLength : 1..MaxQueueLen,
   prebootChrome : BOOLEAN, autoQueue : BOOLEAN, keepAlive : BOOLEAN]

Prebooted(h) == config.prebootChrome /\ h <= config.maxConcurrentSessions

Init ==
  /\ config \in Configs
  /\ isMachinedConstrained \in BOOLEAN
  /\ concurrency = config.maxConcurrentSessions
  /\ jobs = <<>>
  /\ pending = 0
  /\ chromeSwarm = IF config.prebootChrome
                   THEN [i \in 1..config.maxConcurrentSessions |-> i] ELSE <<>>
  /\ chrome = [h \in Handles |-> IF Prebooted(h) THEN "launching" ELSE "none"]
  /\ retries = [h \in Handles |-> IF Prebooted(h) THEN DefaultRetries ELSE 0]
  /\ reusing = [h \in Handles |-> 0]
  /\ job = [r \in Reqs |-> NoJob]
  /\ stat = [successful |-> 0, error |-> 0, timedout |-> 0, queued |-> 0]
  /\ refresh = "armed"

\* ------------------------------------------------------------------ actions
\* a response is written: headers and status go out
Respond(s, j, code) == [s EXCEPT !.job[j].status = code]

\* mutant: the throttle and the queued hook run before the capacity check
RunFunction_ThrottleFirst(r, codeOk) ==
  /\ job[r].pc = "none"
  /\ \A q \in Reqs : q < r => job[q].pc # "none"
  /\ LET queueLength == QueueLength(State)
         s1 == UpdateConcurrency(State, isMachinedConstrained)
         s2 == IF queueLength >= s1.concurrency THEN OnQueued(s1) ELSE s1
     IN IF QueueFull(State)
        THEN Commit(Respond([s2 EXCEPT !.job[r].pc = "rejected"], r, 429))
        ELSE IF ~codeOk
        THEN Commit([s2 EXCEPT !.job[r].pc = "bindfail"])
        ELSE Commit(QueuePush(s2, r))

\* runFunction({code, context, req, res})
RunFunction(r, codeOk) ==
  /\ job[r].pc = "none"
  /\ \A q \in Reqs : q < r => job[q].pc # "none"
  /\ LET queueLength == QueueLength(State)
         s1 == UpdateConcurrency(State, isMachinedConstrained)
         s2 == IF queueLength >= s1.concurrency THEN OnQueued(s1) ELSE s1
     IN IF QueueFull(State)
        THEN Commit(Respond([State EXCEPT !.job[r].pc = "rejected"], r, 429))
        ELSE IF ~codeOk
        THEN Commit([s2 EXCEPT !.job[r].pc = "bindfail"])
        ELSE Commit(QueuePush(s2, r))

\* autoUpdateQueue(), a public method the server may call at any time
AutoUpdateQueue ==
  /\ Commit(UpdateConcurrency(State, isMachinedConstrained))

\* the resource monitor's signal changes
MonitorChanges ==
  /\ isMachinedConstrained' = ~isMachinedConstrained
  /\ UNCHANGED <<config, concurrency, jobs, pending, chromeSwarm, chrome,
                 retries, reusing, job, stat, refresh>>

Awaited(h) == \E j \in Reqs : job[j].pc = "launching" /\ job[j].launchPromise = h

\* puppeteer.launch resolves; the job awaiting it goes on to newPage
LaunchSucceeds(h) ==
  /\ chrome[h] = "launching"
  /\ Awaited(h)
  /\ chrome' = [chrome EXCEPT ![h] = "ready"]
  /\ job' = [j \in Reqs |->
       IF job[j].pc = "launching" /\ job[j].launchPromise = h
       THEN [job[j] EXCEPT !.pc = "newpage"] ELSE job[j]]
  /\ UNCHANGED <<config, isMachinedConstrained, concurrency, jobs, pending,
                 chromeSwarm, retries, reusing, stat, refresh>>

\* mutant: the catch retries once more than its budget (retries >= 0)
LaunchRetries_OffByOne(h) ==
  /\ chrome[h] = "launching"
  /\ Awaited(h)
  /\ retries[h] >= 0
  /\ retries' = [retries EXCEPT ![h] = @ - 1]
  /\ UNCHANGED <<config, isMachinedConstrained, concurrency, jobs, pending,
                 chromeSwarm, chrome, reusing, job, stat, refresh>>

\* puppeteer.launch rejects with retries left: launchChrome's catch retries
LaunchRetries(h) ==
  /\ chrome[h] = "launching"
  /\ Awaited(h)
  /\ retries[h] > 0
  /\ retries' = [retries EXCEPT ![h] = @ - 1]
  /\ UNCHANGED <<config, isMachinedConstrained, concurrency, jobs, pending,
                 chromeSwarm, chrome, reusing, job, stat, refresh>>

\* puppeteer.launch rejects with no retry left: launchChrome rethrows, the
\* awaiting job's promise rejects and the queue calls next(err)
LaunchFails(h) ==
  /\ chrome[h] = "launching"
  /\ retries[h] = 0
  /\ \E j \in Reqs :
       /\ job[j].pc = "launching" /\ job[j].launchPromise = h
       /\ Commit(QueueNext([State EXCEPT !.chrome[h] = "failed",
                                         !.job[j].pc = "launchfail"], j, TRUE))

\* `await browser.newPage()` resumes: job.browser is set and the handler called
JobPageOpened(j) ==
  /\ job[j].pc = "newpage"
  /\ chrome[job[j].launchPromise] = "ready"
  /\ job' = [job EXCEPT ![j].pc = "handler", ![j].page = "open",
                        ![j].browser = job[j].launchPromise]
  /\ UNCHANGED <<config, isMachinedConstrained, concurrency, jobs, pending,
                 chromeSwarm, chrome, retries, reusing, stat, refresh>>

\* `await browser.newPage()` throws (always so on a closed browser)
JobPageFails(j) ==
  /\ job[j].pc = "newpage"
  /\ Commit(QueueNext([State EXCEPT !.job[j].pc = "pagefail"], j, TRUE))

\* the release in the handler's then: recycle under keep-alive, else close
ReleaseOnSuccess(s, j) ==
  LET b == s.job[j].browser
      s1 == [s EXCEPT !.job[j].releases = @ + 1]
  IN IF config.keepAlive
     THEN [s1 EXCEPT !.job[j].page = "closed", !.chromeSwarm = Append(@, b)]
     ELSE BrowserClose(s1, b)

\* the release in the handler's catch: always close
ReleaseOnFailure(s, j) ==
  BrowserClose([s EXCEPT !.job[j].releases = @ + 1], s.job[j].browser)

\* the release of job.close and of the request's close listener
ReleaseOnClose(s, j) ==
  LET b == s.job[j].browser
      s1 == [s EXCEPT !.job[j].releases = @ + 1]
  IN IF b = 0 THEN s
     ELSE IF config.keepAlive THEN ReuseChromeInstance(s1, b)
     ELSE BrowserClose(s1, b)

\* mutant: the catch writes its error response whatever was sent before
JobCatch_Resend(s, j) ==
  QueueNext(ReleaseOnFailure(Respond(s, j, 500), j), j, FALSE)

\* the .catch of the job: the error response, then browser.close(). Once the
\* headers are out, send throws and the close is never reached; the job's
\* promise rejects and the queue calls next(err)
JobCatch(s, j) ==
  IF s.job[j].status # 0 THEN QueueNext(s, j, TRUE)
  ELSE QueueNext(ReleaseOnFailure(Respond(s, j, 500), j), j, FALSE)

\* the handler's promise resolves with {data, type}
HandlerResolves(j, kind) ==
  /\ job[j].pc = "handler"
  /\ LET s1 == ReleaseOnSuccess([State EXCEPT !.job[j].pc = "resolved"], j)
     IN IF s1.job[j].status # 0 \/ kind = "untyped"
        THEN Commit(JobCatch(s1, j))       \* res.type or type.includes throws
        ELSE Commit(QueueNext(Respond(s1, j, 200), j, FALSE))

\* the handler's promise rejects
HandlerRejects(j) ==
  /\ job[j].pc = "handler"
  /\ Commit(JobCatch([State EXCEPT !.job[j].pc = "failed"], j))

\* mutant: job.close answers but leaves the browser alone
JobClose_NoRelease(s, j) ==
  IF s.job[j].status # 0 THEN s ELSE Respond(s, j, 408)

\* job.close()
JobClose(s, j) ==
  LET s1 == ReleaseOnClose(s, j)
  IN IF s1.job[j].status # 0 THEN s1 ELSE Respond(s1, j, 408)

\* the queue's timer of a started job fires: onTimedOut(next, job)
OnTimedOut(j) ==
  /\ job[j].once
  /\ LET s0 == [State EXCEPT !.job[j].didTimeout = TRUE]
         s1 == JobClose(s0, j)
         s2 == [s1 EXCEPT !.stat.timedout = @ + 1]
     IN Commit(QueueNext(OnSessionComplete(s2), j, FALSE))

\* req.on('close'): the client's connection closes. The listener is set on
\* an admitted request, and the request emits 'close' once, while its
\* response is unfinished
RequestClosed(j) ==
  /\ job[j].pc \notin {"none", "rejected", "bindfail"}
  /\ ~job[j].reqClosed
  /\ job[j].status = 0
  /\ Commit(ReleaseOnClose([State EXCEPT !.job[j].reqClosed = TRUE], j))

\* reuseChromeInstance after its await: close the pages, push the browser
ReuseDone(h) ==
  /\ reusing[h] > 0
  /\ LET s1 == ClosePages([State EXCEPT !.reusing[h] = @ - 1], h)
     IN Commit([s1 EXCEPT !.chromeSwarm = Append(@, h)])

\* the refresh timer calls refreshChromeSwarm detached from the service
\* (setTimeout(this.refreshChromeSwarm, ...)): reading this.config throws at
\* its first line, before any browser is touched and before it re-arms
RefreshChromeSwarm ==
  /\ refresh = "armed"
  /\ refresh' = "threw"
  /\ UNCHANGED <<config, isMachinedConstrained, concurrency, jobs, pending,
                 chromeSwarm, chrome, retries, reusing, job, stat>>

\* what the service does by itself once requests are in, every launch
\* succeeding
Settle ==
  \/ AutoUpdateQueue
  \/ MonitorChanges
  \/ \E h \in Handles : LaunchSucceeds(h)
  \/ \E j \in Reqs : JobPageOpened(j)
  \/ \E j \in Reqs : JobPageFails(j)
  \/ \E j \in Reqs, kind \in ResultKinds : HandlerResolves(j, kind)
  \/ \E j \in Reqs : HandlerRejects(j)
  \/ \E j \in Reqs : OnTimedOut(j)

\* the same, and a browser on its way back to the pool arrives
Progress ==
  \/ Settle
  \/ \E h \in Handles : ReuseDone(h)

\* every trigger interleaved: requests, settlements, timeouts, disconnects.
\* A queue longer than LifeReqs never fills here, so it is left out.
InitLife == Init /\ config.maxQueueLength <= LifeReqs

Next ==
  \/ \E r \in 1..LifeReqs, codeOk \in BOOLEAN : RunFunction(r, codeOk)
  \/ Progress
  \/ \E j \in Reqs : RequestClosed(j)

Spec == InitLife /\ [][Next]_vars

\* more requests, whose clients all stay connected, with the pool switched
\* off (no preboot, no keep-alive): every job launches its own browser
InitQueue == Init /\ ~config.prebootChrome /\ ~config.keepAlive

NextQueue ==
  \/ \E r \in 1..QueueReqs, codeOk \in BOOLEAN : RunFunction(r, codeOk)
  \/ Settle

SpecQueue == InitQueue /\ [][NextQueue]_vars

\* a burst: requests arrive and start, none settles or times out
NextBurst ==
  \/ \E r \in Reqs, codeOk \in BOOLEAN : RunFunction(r, codeOk)
  \/ MonitorChanges
  \/ \E h \in Handles : LaunchSucceeds(h)
  \/ \E j \in Reqs : JobPageOpened(j)

SpecBurst == Init /\ [][NextBurst]_vars

\* one request, with launches that fail and the refresh timer
NextLaunch ==
  \/ \E codeOk \in BOOLEAN : RunFunction(1, codeOk)
  \/ Progress
  \/ \E j \in Reqs : RequestClosed(j)
  \/ \E h \in Handles : LaunchRetries(h)
  \/ \E h \in Handles : LaunchFails(h)
  \/ RefreshChromeSwarm

SpecLaunch == Init /\ [][NextLaunch]_vars

\* requests, settlements, timeouts and disconnects with a fixed ceiling (no
\* preboot, no auto-queue), where the queue's timer of a started job fires
\* unless the job ends first, and a browser on its way back to the pool
\* arrives (setTimeout and the awaited pages() do complete)
InitLive ==
  InitLife /\ ~config.prebootChrome /\ ~config.autoQueue /\ ~isMachinedConstrained

NextLive ==
  \/ \E r \in 1..LifeReqs, codeOk \in BOOLEAN : RunFunction(r, codeOk)
  \/ \E h \in Handles : LaunchSucceeds(h)
  \/ \E j \in Reqs : JobPageOpened(j)
  \/ \E j \in Reqs : JobPageFails(j)
  \/ \E j \in Reqs, kind \in ResultKinds : HandlerResolves(j, kind)
  \/ \E j \in Reqs : HandlerRejects(j)
  \/ \E j \in Reqs : OnTimedOut(j)
  \/ \E h \in Handles : ReuseDone(h)
  \/ \E j \in Reqs : RequestClosed(j)

SpecLive ==
  /\ InitLive /\ [][NextLive]_vars
  /\ \A j \in 1..LifeReqs : WF_vars(OnTimedOut(j))
  /\ \A h \in Handles : WF_vars(ReuseDone(h))

\* ------------------------------------------------------------------ claims
\* how many times browser h sits in the idle pool
PoolCount(h) == Cardinality({i \in DOMAIN chromeSwarm : chromeSwarm[i] = h})

\* the jobs the queue counts as running: started, next() not yet called
RunningJobs == {j \in Reqs : job[j].once}

\* C1: no browser is at once in the idle pool and bound to a job the queue
\* still counts as running.
C1_PooledBrowserNotBoundToRunningJob ==
  \A j \in RunningJobs :
    job[j].browser # 0 => PoolCount(job[j].browser) = 0

\* C3: the close procedure is idempotent. While a job's handler has not
\* settled, only its close procedure (job.close on timeout, the close
\* listener on disconnect) can have released its browser; however often it
\* ran, the browser is on its way back to the pool, or in it, at most once.
C3_CloseIsIdempotent ==
  \A j \in Reqs :
    (job[j].pc = "handler" /\ \A k \in Reqs \ {j} : job[k].launchPromise # job[j].browser)
      => PoolCount(job[j].browser) + reusing[job[j].browser] <= 1

\* C4: on every terminal path a job's browser is released exactly once: never
\* twice, and once the handler has settled, once. (A result without a content
\* type, whose response ends as a 500, is left aside.)
C4_ReleasedExactlyOnce ==
  \A j \in Reqs :
    ~(job[j].pc = "resolved" /\ job[j].status = 500) =>
      /\ job[j].releases <= 1
      /\ job[j].pc \in {"resolved", "failed"} => job[j].releases = 1

\* C2: the running jobs never outnumber the ceiling, and the queue's pending
\* counter counts exactly them.
C2_RunningWithinCeiling ==
  /\ Cardinality(RunningJobs) <= concurrency
  /\ pending = Cardinality(RunningJobs)

\* C2 witness: the ceiling was lowered to the pending length under pressure
\* while a job runs
C2_Witness ==
  /\ concurrency < config.maxConcurrentSessions
  /\ pending = concurrency
  /\ pending > 0

\* C5: a request arriving while the queue's length is below maxQueueLength is
\* not turned away for capacity (it is pushed, to run or wait, once its code
\* binds); one arriving at maxQueueLength is rejected with a 429 and the
\* queue is left as it was.
Admitted(r) == job[r].pc \notin {"none", "rejected", "bindfail"}

C5_Step(r) ==
  (job[r].pc = "none" /\ job'[r].pc # "none") =>
    IF pending + Len(jobs) >= config.maxQueueLength
    THEN /\ job'[r].pc = "rejected" /\ job'[r].status = 429
         /\ jobs' = jobs /\ pending' = pending
    ELSE /\ job'[r].pc # "rejected"
         /\ job'[r].pc # "bindfail" =>
              /\ pending' + Len(jobs') = pending + Len(jobs) + 1
              /\ job'[r].once \/ \E i \in DOMAIN jobs' : jobs'[i] = r

C5_AdmissionBoundary == [][\A r \in Reqs : C5_Step(r)]_vars

\* C5 witness: with maxQueueLength = 2 the second pending request was
\* accepted (it waits) and the third rejected
C5_Witness ==
  /\ config.maxQueueLength = 2
  /\ job[1].once /\ job[2].pc = "queued" /\ job[3].pc = "rejected"

\* C6: with maxConcurrentSessions = 2, maxQueueLength = 2 and preboot off
\* (auto-queue off, so the ceiling stays 2), once five requests with sound
\* code are in and no job has ended, exactly 2 jobs run, exactly 2 wait with
\* onQueued called for each, and exactly 1 was rejected.
C6_BurstOfFive ==
  ( /\ config.maxConcurrentSessions = 2 /\ config.maxQueueLength = 2
    /\ ~config.prebootChrome /\ ~config.autoQueue
    /\ \A r \in 1..5 :
         /\ job[r].pc \in {"rejected", "queued", "launching", "newpage", "handler"}
         /\ ~job[r].didTimeout )
  => /\ Cardinality({r \in 1..5 : job[r].once}) = 2
     /\ Cardinality({r \in 1..5 : job[r].pc = "queued"}) = 2
     /\ stat.queued = 2
     /\ Cardinality({r \in 1..5 : job[r].pc = "rejected"}) = 1

\* C7: jobs start in submission order. Requests are numbered as they arrive,
\* and an admitted one is pushed on arrival: of two admitted jobs the later
\* one has not started unless the earlier one has.
Started(j) == Admitted(j) /\ job[j].pc # "queued"

C7_StartInSubmissionOrder ==
  \A a, b \in Reqs :
    (a < b /\ Admitted(a) /\ Admitted(b) /\ Started(b)) => Started(a)

\* C7 witness: two requests were queued behind a running job; it timed out,
\* the first of them started and the second still waits
C7_Witness ==
  /\ job[1].didTimeout /\ stat.queued = 2
  /\ Started(2) /\ job[3].pc = "queued"

\* C8: an admission under auto-queue with the length L below the ceiling sets
\* the ceiling to L when the monitor reports constrained and to
\* maxConcurrentSessions otherwise; any other admission leaves the ceiling.
C8_Step(r) ==
  (job[r].pc = "none" /\ Admitted(r)') =>
    concurrency' =
      IF config.autoQueue /\ pending + Len(jobs) < concurrency
      THEN IF isMachinedConstrained THEN pending + Len(jobs)
           ELSE config.maxConcurrentSessions
      ELSE concurrency

C8_ThrottleNarrowing == [][\A r \in Reqs : C8_Step(r)]_vars

\* C8 witness: the second request came in under pressure with one job
\* running: the ceiling is 1 of 2 and the request waits
C8_Witness ==
  /\ config.autoQueue /\ config.maxConcurrentSessions = 2
  /\ isMachinedConstrained /\ concurrency = 1
  /\ job[1].once /\ job[2].pc = "queued" /\ stat.queued = 1

\* C9: once a job's handler has resolved (and no other job has taken the
\* browser since), under keep-alive the browser is in the idle pool exactly
\* once with the job's page closed; without keep-alive it is closed and not
\* in the pool.
C9_KeepAliveRecycling ==
  \A j \in Reqs :
    ( /\ job[j].pc = "resolved" /\ job[j].status # 500
      /\ \A k \in Reqs \ {j} : job[k].launchPromise # job[j].browser )
    => IF config.keepAlive
       THEN PoolCount(job[j].browser) = 1 /\ job[j].page = "closed"
       ELSE chrome[job[j].browser] = "closed" /\ PoolCount(job[j].browser) = 0

\* C10: the browser of a job whose handler rejected is closed and is neither
\* in the idle pool nor on its way back to it, whatever keep-alive says and
\* whether or not a timeout or a disconnect came first.
C10_FailureIsolation ==
  \A j \in Reqs :
    job[j].pc = "failed" =>
      /\ chrome[job[j].browser] = "closed"
      /\ PoolCount(job[j].browser) = 0
      /\ reusing[job[j].browser] = 0

\* C11: a running job whose handler never settles is timed out: its slot is
\* freed and a response is out. The timeout's step writes the 408 if nothing
\* was sent, adds exactly 1 to timedout, closes the job's browser (keep-alive
\* off) or sends it back to the pool (keep-alive on), frees the slot and
\* starts the next waiting job; and the browser sent back does reach the pool.
C11_TimeoutStep(j) ==
  (job[j].pc = "handler" /\ job[j].once /\ job'[j].didTimeout) =>
    /\ ~job'[j].once
    /\ pending' + Len(jobs') = pending + Len(jobs) - 1
    /\ stat'.timedout = stat.timedout + 1
    /\ job'[j].status = IF job[j].status = 0 THEN 408 ELSE job[j].status
    /\ IF config.keepAlive
       THEN reusing'[job[j].browser] = reusing[job[j].browser] + 1
       ELSE chrome'[job[j].browser] = "closed"
    /\ jobs # <<>> => job'[Head(jobs)].once

C11_Timeout ==
  /\ \A j \in 1..LifeReqs :
       (job[j].pc = "handler" /\ job[j].once) ~>
         (job[j].pc # "handler" \/ (job[j].didTimeout /\ ~job[j].once /\ job[j].status # 0))
  /\ \A h \in Handles : (reusing[h] > 0) ~> (PoolCount(h) > 0)
  /\ [][\A j \in Reqs : C11_TimeoutStep(j)]_vars

\* C11 witness: the first job timed out with its handler still in flight and
\* got the 408, and the job that waited behind it has started
C11_Witness ==
  /\ job[1].pc = "handler" /\ job[1].didTimeout /\ job[1].status = 408
  /\ stat.timedout = 1 /\ stat.queued = 1 /\ job[2].once

\* C12: a launch with retry budget r (the default, DefaultRetries) makes at
\* most r + 1 attempts: the retries left never go below 0, each retry takes
\* exactly one of them, a launch that failed has used all r, and a launch
\* that has succeeded or failed makes no further attempt.
C12_Settled(h) == chrome[h] \in {"ready", "failed", "closed"}

C12_RetryStep(h) ==
  /\ C12_Settled(h) => (retries'[h] = retries[h] /\ C12_Settled(h)')
  /\ (chrome[h] = "launching" /\ retries'[h] # retries[h]) =>
       (retries'[h] = retries[h] - 1 /\ chrome'[h] = "launching")

C12_RetryBound ==
  /\ [](\A h \in Handles :
         /\ chrome[h] # "none" => retries[h] \in 0..DefaultRetries
         /\ chrome[h] = "failed" => retries[h] = 0)
  /\ [][\A h \in Handles : C12_RetryStep(h)]_vars

\* C12 witness: a launch succeeded on its last allowed attempt and its job
\* went on with that browser
C12_Witness ==
  \E h \in Handles :
    /\ chrome[h] = "ready" /\ retries[h] = 0
    /\ job[1].pc = "handler" /\ job[1].browser = h

\* C13: a job's connection gets at most one response: once a status is
\* written no step writes another. (The paths write different statuses, 429,
\* 200, 500 and 408, and each path runs at most once for a job, so a second
\* write would show as a changed status.)
C13_Step(j) ==
  job[j].status # 0 => job'[j].status = job[j].status

C13_RespondsAtMostOnce == [][\A j \in Reqs : C13_Step(j)]_vars

\* C13 witness: a job timed out and got the 408, then its handler settled,
\* and the response is still the 408
C13_Witness ==
  \E j \in Reqs :
    /\ job[j].didTimeout /\ job[j].status = 408
    /\ job[j].pc \in {"resolved", "failed"}

\* C14: a job whose launch failed with its retries exhausted, or whose page
\* could not be opened, has the server-error response of a handler failure
\* (500) on its connection, counts as an error and holds no slot.
C14_LaunchFailureReported ==
  \A j \in Reqs :
    job[j].pc \in {"launchfail", "pagefail"} =>
      /\ job[j].status = 500
      /\ ~job[j].once
      /\ stat.error >= 1 \/ job[j].didTimeout

\* C15: rejecting a request for capacity changes nothing but that request's
\* response: the queue, the running count, the ceiling, the idle pool, the
\* browsers, the other jobs and the four counters are as before (so neither
\* the throttle nor the queued hook was applied).
C15_Step(r) ==
  (job[r].pc = "none" /\ job'[r].pc = "rejected") =>
    /\ UNCHANGED <<jobs, pending, concurrency, chromeSwarm, chrome, retries,
                   reusing, stat>>
    /\ \A j \in Reqs \ {r} : job'[j] = job[j]

C15_RejectionChangesNothing == [][\A r \in Reqs : C15_Step(r)]_vars

\* C15 witness: under auto-queue, with one job running below the ceiling of
\* 2 and the monitor reporting pressure, the second request was rejected for
\* capacity (maxQueueLength = 1): the ceiling is still 2, nothing was counted
\* as queued
C15_Witness ==
  /\ config.autoQueue /\ isMachinedConstrained
  /\ job[1].once /\ job[2].pc = "rejected" /\ job[2].status = 429
  /\ pending = 1 /\ concurrency = 2 /\ stat.queued = 0

\* C16: a run of the refresh cycle ends with its next run scheduled: the
\* refresh timer is armed in every state, so the cycle goes on closing the
\* browsers of the idle pool.
C16_RefreshReschedules == refresh = "armed"

\* C17: work conservation. Whenever an admitted job waits in the queue, the
\* running jobs are exactly as many as the ceiling allows: no slot is idle
\* while a job waits, after a completion, failure or timeout as after any
\* change of the ceiling.
C17_WorkConservation ==
  jobs # <<>> => Cardinality(RunningJobs) = concurrency

\* C17 witness: a job has ended and freed its slot, the slots are all taken
\* again and a job still waits
C17_Witness ==
  /\ jobs # <<>> /\ pending = concurrency /\ pending >= 1
  /\ \E j \in Reqs : job[j].pc \in {"resolved", "failed"} /\ ~job[j].once

\* C18: pressure never blocks an admitted job for good. A waiting job is
\* started by the end of a running job or by a push that finds a free slot,
\* so it can start as long as a job runs or the ceiling is above 0: no state
\* has a job waiting with nothing running and the ceiling at 0 (from there
\* the ceiling never rises, since the length is not below it, and no start
\* ever passes it).
C18_NeverBlockedForGood ==
  ~(jobs # <<>> /\ pending = 0 /\ concurrency = 0)

\* C19: every browser in the idle pool is live: none is closed and none
\* failed to launch, so a job that shifts the pool never gets a closed one.
C19_PoolHandlesLive ==
  \A i \in DOMAIN chromeSwarm : chrome[chromeSwarm[i]] \notin {"closed", "failed"}

\* C20: each job the queue started and that has ended (its slot is free)
\* counts once, in the counter of its outcome: timedout if it timed out,
\* else successful if its handler resolved, else error (handler rejected,
\* launch or page failed).
Ended(j) == Started(j) /\ ~job[j].once

C20_OneCounterPerJob ==
  /\ stat.timedout = Cardinality({j \in Reqs : Ended(j) /\ job[j].didTimeout})
  /\ stat.successful =
       Cardinality({j \in Reqs : Ended(j) /\ ~job[j].didTimeout /\ job[j].pc = "resolved"})
  /\ stat.error =
       Cardinality({j \in Reqs : Ended(j) /\ ~job[j].didTimeout
                                   /\ job[j].pc \in {"failed", "launchfail", "pagefail"}})
====
